---- MODULE Spec2Model ----
(***************************************************************************)
(* The normalization core of music-player (types/src/types.rs): discovery  *)
(* records to Device, audio tags to Song/Artist/Album, index documents to  *)
(* Album/Artist/SimplifiedSong, and the recursive rehoming of track and    *)
(* cover references.                                                       *)
(*                                                                         *)
(* A Rust String is a sequence of one-character strings, so that contains, *)
(* replace, split, split_at, starts_with and format! are computed and not  *)
(* assumed.  Option<T> is a sequence of length at most one: None is <<>>   *)
(* and Some(x) is <<x>>.  A call that can panic returns Ok(v) or           *)
(* Panic(why).                                                             *)
(***************************************************************************)
EXTENDS Integers, Sequences, FiniteSets, TLC

VARIABLES
    settings,     \* discovery: the settings file, None when it cannot be read
    local_ip,     \* discovery: get_local_ip_address(), None when it fails
    batch,        \* discovery: the records handed to Device::from so far
    devices,      \* discovery: the Devices returned, devices[i] from batch[i]
    panicked,     \* discovery: Device::from panicked on the last record
    entity,       \* rehoming: the root entity the calls started from
    applied,      \* rehoming: the rehoming calls made, each on the last result
    song,         \* updates: the Song a with_properties call is made on
    device,       \* updates: the Device a with_base_url call is made on
    returned,     \* updates: what the last with_* call returned
    tag,          \* tags: the audio-tag record
    derived,      \* tags: the Song, Artist and Album derived from it
    document,     \* documents: the index document handed to a decoder
    encoded,      \* documents: the entity the document was encoded from
    decoded,      \* documents: what the decoder returned
    this,         \* connection: the Device an is_connected call is made on
    current_device, \* connection: the currently connected Device, None when there is none
    answer        \* connection: what the last is_connected call returned

vars == <<settings, local_ip, batch, devices, panicked, entity, applied,
          song, device, returned, tag, derived, document, encoded, decoded,
          this, current_device, answer>>

discoveryVars == <<settings, local_ip, batch, devices, panicked>>
rehomeVars == <<entity, applied>>
updateVars == <<song, device, returned>>
tagVars == <<tag, derived>>
documentVars == <<document, encoded, decoded>>
connectedVars == <<this, current_device, answer>>

\* ------------------------------------------------------------------ bounds
\* The longest batch of discovery records one run normalizes.
MaxBatch == 2
\* The most rehoming calls one run chains.
MaxApply == 2

\* ------------------------------------------------------- Option and panics
None == <<>>
Some(x) == <<x>>
Ok(v) == [res |-> "Ok", val |-> v]
Panic(why) == [res |-> "Panic", val |-> why]

\* ------------------------------------------------------ Rust str operations
\* The 1-based index of the first occurrence of pat in s, 0 when there is none.
find(s, pat) ==
    LET hits == {i \in 1..(Len(s) - Len(pat) + 1) : SubSeq(s, i, i + Len(pat) - 1) = pat}
    IN IF hits = {} THEN 0 ELSE CHOOSE i \in hits : \A j \in hits : i <= j

contains(s, pat) == find(s, pat) # 0

starts_with(s, pat) == Len(pat) <= Len(s) /\ SubSeq(s, 1, Len(pat)) = pat

\* str::replace: every non-overlapping match, left to right.
RECURSIVE replace(_, _, _)
replace(s, from, to) ==
    LET i == find(s, from)
    IN IF i = 0 THEN s
       ELSE SubSeq(s, 1, i - 1) \o to \o replace(SubSeq(s, i + Len(from), Len(s)), from, to)

\* str::split(..).collect::<Vec<&str>>(): never empty, s itself when no match.
RECURSIVE split(_, _)
split(s, pat) ==
    LET i == find(s, pat)
    IN IF i = 0 THEN <<s>>
       ELSE <<SubSeq(s, 1, i - 1)>> \o split(SubSeq(s, i + Len(pat), Len(s)), pat)

\* s.split_at(s.len() - 1).0: the usize subtraction underflows on the empty
\* string (a panic in a debug build, usize::MAX in a release build, where
\* split_at then panics): None stands for the panic both builds end in.
drop_last(s) == IF Len(s) = 0 THEN None ELSE Some(SubSeq(s, 1, Len(s) - 1))

Digits == <<"0", "1", "2", "3", "4", "5", "6", "7", "8", "9">>

\* Display of an unsigned integer.
RECURSIVE u_to_string(_)
u_to_string(n) ==
    IF n < 10 THEN <<Digits[n + 1]>>
    ELSE u_to_string(n \div 10) \o <<Digits[(n % 10) + 1]>>

\* Ipv4Addr::to_string: dotted decimal.
addr_to_string(a) ==
    u_to_string(a[1]) \o <<".">> \o u_to_string(a[2]) \o <<".">>
        \o u_to_string(a[3]) \o <<".">> \o u_to_string(a[4])

\* str::parse::<u16>() of a run of characters: None unless all are digits
\* and the value fits.
RECURSIVE digits_value(_)
digits_value(s) ==
    IF Len(s) = 0 THEN 0
    ELSE 10 * digits_value(SubSeq(s, 1, Len(s) - 1))
             + (CHOOSE d \in 0..9 : Digits[d + 1] = s[Len(s)])

parse_u16(s) ==
    IF Len(s) = 0 \/ \E i \in 1..Len(s) : \A d \in 1..10 : Digits[d] # s[i] THEN None
    ELSE IF digits_value(s) > 65535 THEN None
    ELSE Some(digits_value(s))

\* ---------------------------------------------------------------- constants
CHROMECAST_SERVICE_NAME == <<"_","g","o","o","g","l","e","c","a","s","t",".","_","t","c","p",".","l","o","c","a","l",".">>
AIRPLAY_SERVICE_NAME == <<"_","r","a","o","p",".","_","t","c","p",".","l","o","c","a","l",".">>
\* Imported from the discovery crate (music_player_discovery).
SERVICE_NAME == <<"_","m","u","s","i","c","-","p","l","a","y","e","r",".","_","t","c","p",".","l","o","c","a","l",".">>
XBMC_SERVICE_NAME == <<"_","x","b","m","c","-","j","s","o","n","r","p","c","-","h",".","_","t","c","p",".","l","o","c","a","l",".">>

\* ------------------------------------------------------------------- Device
DefaultDevice ==
    [id |-> <<>>, name |-> <<>>, host |-> <<>>, ip |-> <<>>, port |-> 0,
     service |-> <<>>, app |-> <<>>, is_connected |-> FALSE, base_url |-> None,
     is_cast_device |-> FALSE, is_source_device |-> FALSE,
     is_current_device |-> FALSE]

\* HashMap::get on the advertisement's properties.
get(properties, key) ==
    IF key \in DOMAIN properties THEN Some(properties[key]) ELSE None

\* The branches of impl From<ServiceInfo> for Device.  next_addr is what
\* srv.get_addresses().iter().next() yields: None for no address, and
\* otherwise whichever address the set's iteration starts with.
Device_xbmc(srv, next_addr) ==
    LET fullname == srv.fullname
        host == drop_last(srv.hostname)
    IN
    IF host = None THEN Panic("split_at")
    ELSE IF next_addr = None THEN Panic("unwrap: no address")
    ELSE Ok([id |-> fullname,
             name |-> replace(replace(fullname, XBMC_SERVICE_NAME, <<>>), <<".">>, <<>>),
             host |-> host[1],
             ip |-> addr_to_string(next_addr[1]),
             port |-> srv.port,
             service |-> fullname,
             app |-> <<"x","b","m","c">>,
             is_connected |-> FALSE,
             base_url |-> None,
             is_cast_device |-> TRUE,
             is_source_device |-> TRUE,
             is_current_device |-> FALSE])

\* A slip that forgets the scheme: any record of the configured id is current.
is_current_device_any_scheme(device_id, fullname, cfg) ==
    device_id = cfg.device_id

is_current_device(device_id, fullname, cfg) ==
    /\ device_id = cfg.device_id
    /\ split(fullname, <<"-">>)[1] = <<"h","t","t","p">>

Device_music_player(srv, next_addr, cfg, lip) ==
    LET fullname == srv.fullname
        host == drop_last(srv.hostname)
        segments == split(replace(fullname, SERVICE_NAME, <<>>), <<"-">>)
    IN
    IF Len(segments) < 2 THEN Panic("index out of bounds")
    ELSE IF cfg = None THEN Panic("unwrap: settings")
    ELSE
    LET device_id == replace(segments[2], <<".">>, <<>>)
        current == is_current_device(device_id, fullname, cfg[1])
    IN
    IF next_addr = None THEN Panic("unwrap: no address")
    ELSE IF current /\ lip = None THEN Panic("unwrap: local ip")
    ELSE IF host = None THEN Panic("split_at")
    ELSE Ok([id |-> device_id,
             name |-> IF get(srv.properties, "device_name") = None
                      THEN device_id
                      ELSE get(srv.properties, "device_name")[1],
             host |-> host[1],
             ip |-> IF current THEN lip[1] ELSE addr_to_string(next_addr[1]),
             port |-> srv.port,
             service |-> split(fullname, <<"-">>)[1],
             app |-> <<"m","u","s","i","c","-","p","l","a","y","e","r">>,
             is_connected |-> FALSE,
             base_url |-> None,
             is_cast_device |-> TRUE,
             is_source_device |-> TRUE,
             is_current_device |-> current])

Device_chromecast(srv, next_addr) ==
    LET fullname == srv.fullname
        host == drop_last(srv.hostname)
    IN
    IF get(srv.properties, "id") = None THEN Panic("unwrap: id")
    ELSE IF get(srv.properties, "fn") = None THEN Panic("unwrap: fn")
    ELSE IF host = None THEN Panic("split_at")
    ELSE IF next_addr = None THEN Panic("unwrap: no address")
    ELSE Ok([id |-> get(srv.properties, "id")[1],
             name |-> get(srv.properties, "fn")[1],
             host |-> host[1],
             ip |-> addr_to_string(next_addr[1]),
             port |-> srv.port,
             service |-> fullname,
             app |-> <<"c","h","r","o","m","e","c","a","s","t">>,
             is_connected |-> FALSE,
             base_url |-> None,
             is_cast_device |-> TRUE,
             is_source_device |-> FALSE,
             is_current_device |-> FALSE])

Device_airplay(srv, next_addr) ==
    LET fullname == srv.fullname
        host == drop_last(srv.hostname)
        at == split(fullname, <<"@">>)
    IN
    IF Len(at) < 2 THEN Panic("index out of bounds")
    ELSE
    LET name == drop_last(replace(at[2], AIRPLAY_SERVICE_NAME, <<>>))
    IN
    IF name = None THEN Panic("split_at")
    ELSE IF host = None THEN Panic("split_at")
    ELSE IF next_addr = None THEN Panic("unwrap: no address")
    ELSE Ok([id |-> fullname,
             name |-> name[1],
             host |-> host[1],
             ip |-> addr_to_string(next_addr[1]),
             port |-> srv.port,
             service |-> fullname,
             app |-> <<"a","i","r","p","l","a","y">>,
             is_connected |-> FALSE,
             base_url |-> None,
             is_cast_device |-> TRUE,
             is_source_device |-> FALSE,
             is_current_device |-> FALSE])

\* A slip in the order of the tests: the music-player pattern before "xbmc".
Device_from_ServiceInfo_reordered(srv, next_addr, cfg, lip) ==
    IF contains(srv.fullname, SERVICE_NAME)
        THEN Device_music_player(srv, next_addr, cfg, lip)
    ELSE IF contains(srv.fullname, <<"x","b","m","c">>) THEN Device_xbmc(srv, next_addr)
    ELSE IF contains(srv.fullname, CHROMECAST_SERVICE_NAME)
        THEN Device_chromecast(srv, next_addr)
    ELSE IF contains(srv.fullname, AIRPLAY_SERVICE_NAME)
        THEN Device_airplay(srv, next_addr)
    ELSE Ok(DefaultDevice)

\* impl From<ServiceInfo> for Device: the first pattern the name contains.
Device_from_ServiceInfo(srv, next_addr, cfg, lip) ==
    IF contains(srv.fullname, <<"x","b","m","c">>) THEN Device_xbmc(srv, next_addr)
    ELSE IF contains(srv.fullname, SERVICE_NAME)
        THEN Device_music_player(srv, next_addr, cfg, lip)
    ELSE IF contains(srv.fullname, CHROMECAST_SERVICE_NAME)
        THEN Device_chromecast(srv, next_addr)
    ELSE IF contains(srv.fullname, AIRPLAY_SERVICE_NAME)
        THEN Device_airplay(srv, next_addr)
    ELSE Ok(DefaultDevice)

\* Url::parse, then host_str() and port(), on the locations a descriptor
\* carries: `scheme://host[:port][/path]`.  A string without a scheme is a
\* relative URL and an error; a URL without `//` has no host; port() is None
\* when the port is absent or is the scheme's default.
default_port(scheme) ==
    IF scheme = <<"h","t","t","p">> THEN Some(80)
    ELSE IF scheme = <<"h","t","t","p","s">> THEN Some(443)
    ELSE None

Url_parse(s) ==
    LET colon == find(s, <<":">>)
    IN
    IF colon < 2 THEN Panic("RelativeUrlWithoutBase")
    ELSE
    LET scheme == SubSeq(s, 1, colon - 1)
        rest == SubSeq(s, colon + 1, Len(s))
    IN
    IF ~starts_with(rest, <<"/","/">>) THEN Ok([host_str |-> None, port |-> None])
    ELSE
    LET after == SubSeq(rest, 3, Len(rest))
        slash == find(after, <<"/">>)
        authority == IF slash = 0 THEN after ELSE SubSeq(after, 1, slash - 1)
        pc == find(authority, <<":">>)
        hostpart == IF pc = 0 THEN authority ELSE SubSeq(authority, 1, pc - 1)
        portpart == IF pc = 0 THEN <<>> ELSE SubSeq(authority, pc + 1, Len(authority))
    IN
    IF Len(hostpart) = 0 THEN Panic("EmptyHost")
    ELSE IF Len(portpart) > 0 /\ parse_u16(portpart) = None THEN Panic("InvalidPort")
    ELSE Ok([host_str |-> Some(hostpart),
             port |-> IF Len(portpart) = 0 \/ parse_u16(portpart) = default_port(scheme)
                      THEN None
                      ELSE parse_u16(portpart)])

\* impl From<upnp_client::types::Device> for Device.
Device_from_upnp(d) ==
    LET url == Url_parse(d.location)
    IN
    IF url.res = "Panic" THEN Panic("unwrap: Url::parse")
    ELSE IF url.val.host_str = None THEN Panic("unwrap: host_str")
    ELSE IF url.val.port = None THEN Panic("unwrap: port")
    ELSE Ok([id |-> d.udn,
             name |-> d.friendly_name,
             host |-> url.val.host_str[1],
             ip |-> url.val.host_str[1],
             port |-> url.val.port[1],
             service |-> d.device_type,
             app |-> <<"d","l","n","a">>,
             is_connected |-> FALSE,
             base_url |-> Some(d.location),
             is_cast_device |->
                 contains(d.device_type, <<"u","r","n",":","s","c","h","e","m","a","s","-","u","p","n","p","-","o","r","g",":","d","e","v","i","c","e",":","M","e","d","i","a","R","e","n","d","e","r","e","r">>),
             is_source_device |->
                 contains(d.device_type, <<"u","r","n",":","s","c","h","e","m","a","s","-","u","p","n","p","-","o","r","g",":","d","e","v","i","c","e",":","M","e","d","i","a","S","e","r","v","e","r">>),
             is_current_device |-> FALSE])

\* -------------------------------------------------------- discovery: inputs
\* mDNS full names: one per record shape, names that match two patterns, and
\* names that carry a pattern without the shape's delimiters.
XbmcName == <<"k","o","d","i",".","_","x","b","m","c","-","j","s","o","n","r","p","c","-","h",".","_","t","c","p",".","l","o","c","a","l",".">>
HttpAbcdName == <<"h","t","t","p","-","a","b","c","d",".","_","m","u","s","i","c","-","p","l","a","y","e","r",".","_","t","c","p",".","l","o","c","a","l",".">>
GrpcAbcdName == <<"g","r","p","c","-","a","b","c","d",".","_","m","u","s","i","c","-","p","l","a","y","e","r",".","_","t","c","p",".","l","o","c","a","l",".">>
HttpEf01Name == <<"h","t","t","p","-","e","f","0","1",".","_","m","u","s","i","c","-","p","l","a","y","e","r",".","_","t","c","p",".","l","o","c","a","l",".">>
HttpAbcd2Name == <<"h","t","t","p","-","a","b","c","d","-","2",".","_","m","u","s","i","c","-","p","l","a","y","e","r",".","_","t","c","p",".","l","o","c","a","l",".">>
NoDashName == <<"a","b","c","d",".","_","m","u","s","i","c","-","p","l","a","y","e","r",".","_","t","c","p",".","l","o","c","a","l",".">>
HttpXbmcName == <<"h","t","t","p","-","x","b","m","c",".","_","m","u","s","i","c","-","p","l","a","y","e","r",".","_","t","c","p",".","l","o","c","a","l",".">>
ChromecastName == <<"t","v","-","1","f",".","_","g","o","o","g","l","e","c","a","s","t",".","_","t","c","p",".","l","o","c","a","l",".">>
XbmcCastName == <<"x","b","m","c","-","t","v",".","_","g","o","o","g","l","e","c","a","s","t",".","_","t","c","p",".","l","o","c","a","l",".">>
AirplayName == <<"A","1","B","2","@","D","e","n",".","_","r","a","o","p",".","_","t","c","p",".","l","o","c","a","l",".">>
NoAtName == <<"D","e","n",".","_","r","a","o","p",".","_","t","c","p",".","l","o","c","a","l",".">>
UnknownName == <<"p","r","i","n","t","e","r",".","_","i","p","p",".","_","t","c","p",".","l","o","c","a","l",".">>

FullNames ==
    {XbmcName, HttpAbcdName, GrpcAbcdName, HttpEf01Name, HttpAbcd2Name, NoDashName,
     HttpXbmcName, ChromecastName, XbmcCastName, AirplayName, NoAtName, UnknownName}

HostName == <<"d","e","n",".","l","o","c","a","l",".">>
Addr1 == <<192, 168, 1, 20>>
Addr2 == <<10, 0, 0, 7>>
LocalIp == <<"1","9","2",".","1","6","8",".","1",".","5">>
AllProperties == [device_name |-> <<"D","e","n">>, id |-> <<"c","c","0","1">>, fn |-> <<"T","V">>]
NoProperties == <<>>

ServiceInfo(fullname, hostname, addresses, properties) ==
    [fullname |-> fullname, hostname |-> hostname, addresses |-> addresses,
     port |-> 5353, properties |-> properties]

\* Complete records of every name, and sparse ones: several addresses, no
\* address, an empty host name, properties missing.
ServiceRecords ==
    {ServiceInfo(f, HostName, {Addr1}, AllProperties) : f \in FullNames}
    \cup {ServiceInfo(f, HostName, {Addr1, Addr2}, AllProperties) :
            f \in {HttpAbcdName, HttpEf01Name}}
    \cup {ServiceInfo(f, HostName, {}, AllProperties) :
            f \in {XbmcName, HttpAbcdName, UnknownName}}
    \cup {ServiceInfo(f, <<>>, {Addr1}, AllProperties) : f \in {HttpEf01Name, UnknownName}}
    \cup {ServiceInfo(f, HostName, {Addr1}, NoProperties) :
            f \in {HttpAbcdName, ChromecastName, UnknownName}}
    \cup {ServiceInfo(ChromecastName, HostName, {Addr1}, [id |-> <<"c","c","0","1">>])}

\* What iter().next() can yield on a set of addresses.
iter_next(addresses) ==
    IF addresses = {} THEN {None} ELSE {Some(a) : a \in addresses}

MediaRendererType == <<"u","r","n",":","s","c","h","e","m","a","s","-","u","p","n","p","-","o","r","g",":","d","e","v","i","c","e",":","M","e","d","i","a","R","e","n","d","e","r","e","r",":","1">>
MediaServerType == <<"u","r","n",":","s","c","h","e","m","a","s","-","u","p","n","p","-","o","r","g",":","d","e","v","i","c","e",":","M","e","d","i","a","S","e","r","v","e","r",":","1">>
GatewayType == <<"u","r","n",":","s","c","h","e","m","a","s","-","u","p","n","p","-","o","r","g",":","d","e","v","i","c","e",":","I","n","t","e","r","n","e","t","G","a","t","e","w","a","y","D","e","v","i","c","e",":","1">>

Descriptors ==
    [location : {<<"h","t","t","p",":","/","/","1","9","2",".","1","6","8",".","1",".","9",":","8","2","0","0","/","d","e","s","c",".","x","m","l">>, <<"h","t","t","p",":","/","/","1","9","2",".","1","6","8",".","1",".","9","/","d","e","s","c",".","x","m","l">>,
                 <<"h","t","t","p",":","/","/","t","v",".","l","a","n",":","8","0","/","d",".","x","m","l">>, <<"d","e","s","c",".","x","m","l">>},
     device_type : {MediaRendererType, MediaServerType, GatewayType},
     friendly_name : {<<"T","V">>},
     udn : {<<"u","u","i","d",":","5","f","9","e">>}]

\* ------------------------------------------------------- discovery: actions
InitDiscovery ==
    /\ settings \in {None, Some([device_id |-> <<"a","b","c","d">>])}
    /\ local_ip \in {None, Some(LocalIp)}
    /\ batch = <<>>
    /\ devices = <<>>
    /\ panicked = FALSE
    /\ entity = None
    /\ applied = <<>>
    /\ song = None
    /\ device = None
    /\ returned = None
    /\ tag = None
    /\ derived = None
    /\ document = None
    /\ encoded = None
    /\ decoded = None
    /\ this = None
    /\ current_device = None
    /\ answer = None

\* One call of Device::from: the Device joins the session's list, or the call
\* panics and the thread is gone.
Normalized(input, result) ==
    /\ batch' = Append(batch, input)
    /\ devices' = IF result.res = "Ok" THEN Append(devices, result.val) ELSE devices
    /\ panicked' = (result.res = "Panic")
    /\ UNCHANGED <<settings, local_ip>>

NormalizeService(srv, next_addr) ==
    /\ ~panicked
    /\ Len(batch) < MaxBatch
    /\ Normalized([kind |-> "service", srv |-> srv, next_addr |-> next_addr],
                  Device_from_ServiceInfo(srv, next_addr, settings, local_ip))
    /\ UNCHANGED <<rehomeVars, updateVars, tagVars, documentVars, connectedVars>>

NormalizeDescriptor(d) ==
    /\ ~panicked
    /\ Len(batch) < MaxBatch
    /\ Normalized([kind |-> "descriptor", upnp |-> d], Device_from_upnp(d))
    /\ UNCHANGED <<rehomeVars, updateVars, tagVars, documentVars, connectedVars>>

NextDiscovery ==
    \/ \E srv \in ServiceRecords : \E next_addr \in iter_next(srv.addresses) :
            NormalizeService(srv, next_addr)
    \/ \E d \in Descriptors : NormalizeDescriptor(d)

\* -------------------------------------------------------- discovery: claims
\* The app the documented order of the patterns gives a full name: xbmc,
\* music-player, chromecast, airplay, and the empty app of the default Device.
DocumentedApp(fullname) ==
    IF contains(fullname, <<"x","b","m","c">>) THEN <<"x","b","m","c">>
    ELSE IF contains(fullname, SERVICE_NAME) THEN <<"m","u","s","i","c","-","p","l","a","y","e","r">>
    ELSE IF contains(fullname, CHROMECAST_SERVICE_NAME) THEN <<"c","h","r","o","m","e","c","a","s","t">>
    ELSE IF contains(fullname, AIRPLAY_SERVICE_NAME) THEN <<"a","i","r","p","l","a","y">>
    ELSE <<>>

\* The documented <<is_cast_device, is_source_device>> of each app.
DocumentedFlags(app) ==
    IF app \in {<<"x","b","m","c">>, <<"m","u","s","i","c","-","p","l","a","y","e","r">>} THEN <<TRUE, TRUE>>
    ELSE IF app \in {<<"c","h","r","o","m","e","c","a","s","t">>, <<"a","i","r","p","l","a","y">>} THEN <<TRUE, FALSE>>
    ELSE <<FALSE, FALSE>>

\* C1: every Device normalized from a service record has the app of the first
\* pattern its full name matches, in the order xbmc, music-player, chromecast,
\* airplay, with that app's cast and source flags (an xbmc Device is never
\* current); a record matching no pattern yields the default Device and never
\* a panic; a Device from a UPnP/DLNA descriptor has app dlna, is a cast
\* device iff its type contains the MediaRenderer URN, a source device iff it
\* contains the MediaServer URN, and its base_url is the descriptor location.
C1_Dispatch ==
    /\ \A i \in 1..Len(devices) :
        LET d == devices[i]
            input == batch[i]
        IN
        IF input.kind = "service" THEN
            /\ d.app = DocumentedApp(input.srv.fullname)
            /\ <<d.is_cast_device, d.is_source_device>> = DocumentedFlags(d.app)
            /\ d.is_connected = FALSE
            /\ d.app = <<"x","b","m","c">> => ~d.is_current_device
            /\ d.app = <<>> => d = DefaultDevice
        ELSE
            /\ d.app = <<"d","l","n","a">>
            /\ d.is_cast_device
                <=> contains(input.upnp.device_type,
                             <<"u","r","n",":","s","c","h","e","m","a","s","-","u","p","n","p","-","o","r","g",":","d","e","v","i","c","e",":","M","e","d","i","a","R","e","n","d","e","r","e","r">>)
            /\ d.is_source_device
                <=> contains(input.upnp.device_type,
                             <<"u","r","n",":","s","c","h","e","m","a","s","-","u","p","n","p","-","o","r","g",":","d","e","v","i","c","e",":","M","e","d","i","a","S","e","r","v","e","r">>)
            /\ d.base_url = Some(input.upnp.location)
            /\ d.is_connected = FALSE
    /\ panicked =>
        \/ batch[Len(batch)].kind = "descriptor"
        \/ DocumentedApp(batch[Len(batch)].srv.fullname) # <<>>

\* C1's case: a name that matches two patterns was classified by the first
\* (xbmc), and a record matching none became the default Device, the latter
\* although it has no address.
C1_Witness ==
    /\ Len(devices) = 2
    /\ \E i, j \in 1..2 :
        /\ batch[i].kind = "service"
        /\ contains(batch[i].srv.fullname, SERVICE_NAME)
        /\ devices[i].app = <<"x","b","m","c">>
        /\ batch[j].kind = "service"
        /\ batch[j].srv.fullname = UnknownName
        /\ batch[j].srv.addresses = {}
        /\ devices[j] = DefaultDevice

\* The scheme segment of `<scheme>-<device-id>.<suffix>`: what precedes the
\* first `-`.
SchemeSegment(fullname) == SubSeq(fullname, 1, find(fullname, <<"-">>) - 1)

\* The device id of `<scheme>-<device-id>.<suffix>`: the suffix removed, the
\* second `-`-separated segment taken, its dots removed.
ExtractedId(fullname) ==
    LET stem == replace(fullname, SERVICE_NAME, <<>>)
        tail == SubSeq(stem, find(stem, <<"-">>) + 1, Len(stem))
        second == IF find(tail, <<"-">>) = 0 THEN tail
                  ELSE SubSeq(tail, 1, find(tail, <<"-">>) - 1)
    IN SelectSeq(second, LAMBDA c : c # ".")

\* C2: a Device normalized from a music-player record is the current device
\* iff the id extracted from the name equals the configured device identity
\* and the scheme segment is "http"; a current Device's ip is the machine's
\* local address, any other's is the first address the record's addresses
\* yield.
C2_CurrentDevice ==
    \A i \in 1..Len(devices) :
        LET d == devices[i]
            input == batch[i]
        IN
        (input.kind = "service" /\ d.app = <<"m","u","s","i","c","-","p","l","a","y","e","r">>) =>
            /\ d.id = ExtractedId(input.srv.fullname)
            /\ d.is_current_device
                <=> /\ ExtractedId(input.srv.fullname) = settings[1].device_id
                    /\ SchemeSegment(input.srv.fullname) = <<"h","t","t","p">>
            /\ d.ip = IF d.is_current_device THEN local_ip[1]
                      ELSE addr_to_string(input.next_addr[1])

\* C2's case: a session holding the current device, reported at the local
\* address and not at the one advertised, and a music-player record of the
\* same device id under another scheme, not current, at its advertised address.
C2_Witness ==
    /\ Len(devices) = 2
    /\ \E i, j \in 1..2 :
        /\ devices[i].app = <<"m","u","s","i","c","-","p","l","a","y","e","r">>
        /\ devices[i].is_current_device
        /\ devices[i].ip = LocalIp
        /\ devices[i].ip # addr_to_string(batch[i].next_addr[1])
        /\ devices[j].app = <<"m","u","s","i","c","-","p","l","a","y","e","r">>
        /\ devices[j].id = devices[i].id
        /\ ~devices[j].is_current_device
        /\ devices[j].ip = addr_to_string(batch[j].next_addr[1])

\* C3: at most one Device of a session is the current device.
C3_AtMostOneCurrent ==
    Cardinality({i \in 1..Len(devices) : devices[i].is_current_device}) <= 1

\* ----------------------------------------------------------------- rehoming
\* A slip that builds the uri from the previous uri and not from the id.
Track_with_remote_track_url_from_uri(track, base_url) ==
    [track EXCEPT !.uri = base_url \o <<"/","t","r","a","c","k","s","/">> \o track.uri]

\* impl RemoteTrackUrl for Track.
Track_with_remote_track_url(track, base_url) ==
    [track EXCEPT !.uri = base_url \o <<"/","t","r","a","c","k","s","/">> \o track.id]

\* A slip that drops the starts_with guard.
cover_url_unguarded(cover, base_url) ==
    IF cover = None THEN None ELSE Some(base_url \o <<"/","c","o","v","e","r","s","/">> \o cover[1])

\* The cover_url of impl RemoteCoverUrl for Album.
cover_url(cover, base_url) ==
    IF cover = None THEN None
    ELSE IF starts_with(cover[1], <<"h","t","t","p">>) THEN Some(cover[1])
    ELSE Some(base_url \o <<"/","c","o","v","e","r","s","/">> \o cover[1])

RECURSIVE Track_with_remote_cover_url(_, _)
RECURSIVE Album_with_remote_cover_url(_, _)

\* impl RemoteCoverUrl for Track.
Track_with_remote_cover_url(track, base_url) ==
    [track EXCEPT !.album =
        IF track.album = None THEN None
        ELSE Some(Album_with_remote_cover_url(track.album[1], base_url))]

\* impl RemoteCoverUrl for Album.
Album_with_remote_cover_url(album, base_url) ==
    [album EXCEPT
        !.cover = cover_url(album.cover, base_url),
        !.tracks = [i \in 1..Len(album.tracks) |->
                        Track_with_remote_cover_url(album.tracks[i], base_url)]]

\* impl RemoteTrackUrl for Album.
Album_with_remote_track_url(album, base_url) ==
    [album EXCEPT
        !.tracks = [i \in 1..Len(album.tracks) |->
                        Track_with_remote_track_url(album.tracks[i], base_url)]]

\* impl RemoteCoverUrl for Artist.
Artist_with_remote_cover_url(artist, base_url) ==
    [artist EXCEPT
        !.albums = [i \in 1..Len(artist.albums) |->
                        Album_with_remote_cover_url(artist.albums[i], base_url)],
        !.songs = [i \in 1..Len(artist.songs) |->
                        Track_with_remote_cover_url(artist.songs[i], base_url)]]

\* impl RemoteTrackUrl for Artist.
Artist_with_remote_track_url(artist, base_url) ==
    [artist EXCEPT
        !.songs = [i \in 1..Len(artist.songs) |->
                        Track_with_remote_track_url(artist.songs[i], base_url)]]

\* impl RemoteTrackUrl for Playlist.
Playlist_with_remote_track_url(playlist, base_url) ==
    [playlist EXCEPT
        !.tracks = [i \in 1..Len(playlist.tracks) |->
                        Track_with_remote_track_url(playlist.tracks[i], base_url)]]

\* impl RemoteCoverUrl for Playlist.
Playlist_with_remote_cover_url(playlist, base_url) ==
    [playlist EXCEPT
        !.tracks = [i \in 1..Len(playlist.tracks) |->
                        Track_with_remote_cover_url(playlist.tracks[i], base_url)]]

\* The trait methods, by the type of the receiver.
with_remote_track_url(kind, value, base_url) ==
    CASE kind = "Track" -> Track_with_remote_track_url(value, base_url)
      [] kind = "Album" -> Album_with_remote_track_url(value, base_url)
      [] kind = "Artist" -> Artist_with_remote_track_url(value, base_url)
      [] kind = "Playlist" -> Playlist_with_remote_track_url(value, base_url)

with_remote_cover_url(kind, value, base_url) ==
    CASE kind = "Track" -> Track_with_remote_cover_url(value, base_url)
      [] kind = "Album" -> Album_with_remote_cover_url(value, base_url)
      [] kind = "Artist" -> Artist_with_remote_cover_url(value, base_url)
      [] kind = "Playlist" -> Playlist_with_remote_cover_url(value, base_url)

\* --------------------------------------------------------- rehoming: inputs
Track(id, uri, artists, album) ==
    [id |-> id, title |-> <<"t">>, duration |-> None, disc_number |-> 0,
     track_number |-> None, uri |-> uri, artists |-> artists, album |-> album,
     artist |-> <<"n">>]
Album(id, cover, tracks) ==
    [id |-> id, title |-> <<"a">>, artist |-> <<"n">>, artist_id |-> None, year |-> None,
     cover |-> cover, tracks |-> tracks]
Artist(id, albums, songs) ==
    [id |-> id, name |-> <<"n">>, picture |-> None, albums |-> albums, songs |-> songs]
Playlist(id, tracks) ==
    [id |-> id, name |-> <<"p">>, description |-> None, tracks |-> tracks]

Track42 == Track(<<"4","2">>, <<"/","m","u","s","i","c","/","a",".","m","p","3">>, <<>>, None)
Track7 == Track(<<"7">>, <<"h","t","t","p",":","/","/","h",":","1","2","3","4","/","t","r","a","c","k","s","/","7">>, <<>>, None)

Covers == {None, Some(<<"a","r","t",".","j","p","g">>), Some(<<"h","t","t","p",":","/","/","c","d","n","/","x",".","j","p","g">>)}

Albums ==
    {Album(<<"a","1">>, cover, tracks) :
        cover \in Covers, tracks \in {<<>>, <<Track42>>, <<Track42, Track7>>}}

AlbumWithTrack == Album(<<"a","1">>, Some(<<"a","r","t",".","j","p","g">>), <<Track42>>)

Artists ==
    {Artist(<<"r","1">>, albums, songs) :
        albums \in {<<>>, <<AlbumWithTrack>>,
                    <<Album(<<"a","2">>, None, <<>>), AlbumWithTrack>>},
        songs \in {<<>>, <<Track7>>,
                   <<Track(<<"4","2">>, <<"/","m","u","s","i","c","/","a",".","m","p","3">>, <<>>, Some(AlbumWithTrack))>>}}

Tracks ==
    {Track42, Track7}
    \cup {Track(<<"9">>, <<"/","m","u","s","i","c","/","c",".","m","p","3">>, <<>>, Some(album)) : album \in Albums}
    \cup {Track(<<"9">>, <<"/","m","u","s","i","c","/","c",".","m","p","3">>, <<Artist(<<"r","1">>, <<AlbumWithTrack>>, <<>>)>>, None)}

Playlists ==
    {Playlist(<<"p","1">>, tracks) :
        tracks \in {<<>>, <<Track42>>,
                    <<Track7, Track(<<"9">>, <<"/","m","u","s","i","c","/","c",".","m","p","3">>, <<>>, Some(AlbumWithTrack))>>}}

Entities ==
    {[kind |-> "Track", value |-> t] : t \in Tracks}
    \cup {[kind |-> "Album", value |-> a] : a \in Albums}
    \cup {[kind |-> "Artist", value |-> r] : r \in Artists}
    \cup {[kind |-> "Playlist", value |-> p] : p \in Playlists}

\* A base URL with its scheme, and one given as host:port.
BaseUrls == {<<"h","t","t","p",":","/","/","h",":","1","2","3","4">>, <<"h",":","1","2","3","4">>}

\* -------------------------------------------------------- rehoming: actions
InitRehome ==
    /\ entity \in {Some(e) : e \in Entities}
    /\ applied = <<>>
    /\ settings = None
    /\ local_ip = None
    /\ batch = <<>>
    /\ devices = <<>>
    /\ panicked = FALSE
    /\ song = None
    /\ device = None
    /\ returned = None
    /\ tag = None
    /\ derived = None
    /\ document = None
    /\ encoded = None
    /\ decoded = None
    /\ this = None
    /\ current_device = None
    /\ answer = None

\* The value the next call is made on: the last result, or the root.
Current == IF applied = <<>> THEN entity[1].value ELSE applied[Len(applied)].result

WithRemoteTrackUrl(base_url) ==
    /\ entity # None
    /\ Len(applied) < MaxApply
    /\ applied' = Append(applied,
            [op |-> "track", base_url |-> base_url,
             result |-> with_remote_track_url(entity[1].kind, Current, base_url)])
    /\ UNCHANGED <<entity, discoveryVars, updateVars, tagVars, documentVars, connectedVars>>

WithRemoteCoverUrl(base_url) ==
    /\ entity # None
    /\ Len(applied) < MaxApply
    /\ applied' = Append(applied,
            [op |-> "cover", base_url |-> base_url,
             result |-> with_remote_cover_url(entity[1].kind, Current, base_url)])
    /\ UNCHANGED <<entity, discoveryVars, updateVars, tagVars, documentVars, connectedVars>>

NextRehome ==
    \/ \E base_url \in BaseUrls : WithRemoteTrackUrl(base_url)
    \/ \E base_url \in BaseUrls : WithRemoteCoverUrl(base_url)

\* --------------------------------------------------------- rehoming: claims
\* The value call i was made on.
Before(i) == IF i = 1 THEN entity[1].value ELSE applied[i - 1].result

\* Two calls in a row of the same operation with the same base URL.
Repeated(i, op) ==
    /\ i + 1 <= Len(applied)
    /\ applied[i].op = op
    /\ applied[i + 1].op = op
    /\ applied[i + 1].base_url = applied[i].base_url

\* C4 as stated: a second with_remote_track_url(b) on a Track stacks the
\* prefix on the uri the first one wrote, so twice differs from once.
C4_TrackUrlStacks ==
    \A i \in 1..Len(applied) :
        (entity[1].kind = "Track" /\ Repeated(i, "track")) =>
            /\ applied[i + 1].result.uri
                = applied[i].base_url \o <<"/","t","r","a","c","k","s","/">> \o applied[i].result.uri
            /\ applied[i + 1].result.uri # applied[i].result.uri

\* C4 as amended: with_remote_track_url(b) on a Track writes the uri
\* `<b>/tracks/<id>` from the id, whatever the uri was, and changes nothing
\* else; a second call with the same b returns the same Track as the first.
C4_TrackUrlFromId ==
    \A i \in 1..Len(applied) :
        (entity[1].kind = "Track" /\ applied[i].op = "track") =>
            /\ applied[i].result
                = [Before(i) EXCEPT
                    !.uri = applied[i].base_url \o <<"/","t","r","a","c","k","s","/">> \o Before(i).id]
            /\ Repeated(i, "track") => applied[i + 1].result = applied[i].result

\* C4's case: a Track rehomed twice with the same base URL, the first call
\* having changed its uri.
C4_Witness ==
    /\ entity # None
    /\ entity[1].kind = "Track"
    /\ Repeated(1, "track")
    /\ applied[1].result.uri # entity[1].value.uri
    /\ applied[2].result.uri = applied[1].base_url \o <<"/","t","r","a","c","k","s","/">> \o entity[1].value.id

\* What one with_remote_cover_url(b) does to the cover of the Album it is
\* called on.
CoverRehomedOnce(i) ==
    LET before == Before(i).cover
        after == applied[i].result.cover
        b == applied[i].base_url
    IN
    /\ before = None => after = None
    /\ (before # None /\ starts_with(before[1], <<"h","t","t","p">>)) => after = before
    /\ (before # None /\ ~starts_with(before[1], <<"h","t","t","p">>))
            => after = Some(b \o <<"/","c","o","v","e","r","s","/">> \o before[1])

\* C5 as stated: for every base URL, a second with_remote_cover_url(b) returns
\* what the first returned; an absent cover stays absent, a cover beginning
\* with http is unchanged, any other becomes `<b>/covers/<cover>`.
C5_CoverIdempotent ==
    \A i \in 1..Len(applied) :
        /\ (entity[1].kind = "Album" /\ applied[i].op = "cover") => CoverRehomedOnce(i)
        /\ (entity[1].kind = "Album" /\ Repeated(i, "cover"))
                => applied[i + 1].result = applied[i].result

\* C5 as amended: the same, the second call returning what the first returned
\* when the base URL begins with http.
C5_CoverIdempotentHttpBase ==
    \A i \in 1..Len(applied) :
        /\ (entity[1].kind = "Album" /\ applied[i].op = "cover") => CoverRehomedOnce(i)
        /\ (/\ entity[1].kind = "Album"
            /\ Repeated(i, "cover")
            /\ starts_with(applied[i].base_url, <<"h","t","t","p">>))
                => applied[i + 1].result = applied[i].result

\* C5's case: an Album with a local cover rehomed twice with an http base URL.
C5_Witness ==
    /\ entity # None
    /\ entity[1].kind = "Album"
    /\ entity[1].value.cover = Some(<<"a","r","t",".","j","p","g">>)
    /\ Repeated(1, "cover")
    /\ applied[1].result.cover = Some(<<"h","t","t","p",":","/","/","h",":","1","2","3","4","/","c","o","v","e","r","s","/","a","r","t",".","j","p","g">>)
    /\ applied[2].result.cover = Some(<<"h","t","t","p",":","/","/","h",":","1","2","3","4","/","c","o","v","e","r","s","/","a","r","t",".","j","p","g">>)

\* Every Track, and every Album, of the tree under a value, in the order of a
\* walk that enters every field holding entities.
RECURSIVE TracksIn(_, _)
RECURSIVE TracksInAll(_, _)
TracksIn(kind, v) ==
    CASE kind = "Track" ->
            <<v>>
            \o (IF v.album = None THEN <<>> ELSE TracksIn("Album", v.album[1]))
            \o TracksInAll("Artist", v.artists)
      [] kind = "Album" -> TracksInAll("Track", v.tracks)
      [] kind = "Artist" -> TracksInAll("Album", v.albums) \o TracksInAll("Track", v.songs)
      [] kind = "Playlist" -> TracksInAll("Track", v.tracks)
TracksInAll(kind, vs) ==
    IF Len(vs) = 0 THEN <<>>
    ELSE TracksIn(kind, Head(vs)) \o TracksInAll(kind, Tail(vs))

RECURSIVE AlbumsIn(_, _)
RECURSIVE AlbumsInAll(_, _)
AlbumsIn(kind, v) ==
    CASE kind = "Track" ->
            (IF v.album = None THEN <<>> ELSE AlbumsIn("Album", v.album[1]))
            \o AlbumsInAll("Artist", v.artists)
      [] kind = "Album" -> <<v>> \o AlbumsInAll("Track", v.tracks)
      [] kind = "Artist" -> AlbumsInAll("Album", v.albums) \o AlbumsInAll("Track", v.songs)
      [] kind = "Playlist" -> AlbumsInAll("Track", v.tracks)
AlbumsInAll(kind, vs) ==
    IF Len(vs) = 0 THEN <<>>
    ELSE AlbumsIn(kind, Head(vs)) \o AlbumsInAll(kind, Tail(vs))

\* C6: after with_remote_track_url(b) at the root every Track of the tree has
\* the uri `<b>/tracks/<id>`, and after with_remote_cover_url(b) every Album
\* of the tree whose cover did not begin with http has `<b>/covers/<cover>`.
C6_RewritesEveryReference ==
    \A i \in 1..Len(applied) :
        LET kind == entity[1].kind
            b == applied[i].base_url
            tracks == TracksIn(kind, applied[i].result)
            before == AlbumsIn(kind, Before(i))
            after == AlbumsIn(kind, applied[i].result)
        IN
        /\ applied[i].op = "track" =>
            \A k \in 1..Len(tracks) : tracks[k].uri = b \o <<"/","t","r","a","c","k","s","/">> \o tracks[k].id
        /\ applied[i].op = "cover" =>
            \A k \in 1..Len(before) :
                (before[k].cover # None /\ ~starts_with(before[k].cover[1], <<"h","t","t","p">>))
                    => after[k].cover = Some(b \o <<"/","c","o","v","e","r","s","/">> \o before[k].cover[1])

\* --------------------------------------------------------------------- tags
\* format!("{:x}", md5::compute(name)): the digests of the names the tags
\* below carry.
md5_hex(name) ==
    CASE name = <<"N","o","n","e">> -> <<"6","a","d","f","9","7","f","8","3","a","c","f","6","4","5","3","d","4","a","6","a","4","b","1","0","7","0","f","3","7","5","4">>
      [] name = <<"Q","u","e","e","n">> -> <<"2","c","2","d","2","c","0","2","9","1","1","6","3","b","0","7","7","a","3","7","2","c","2","a","9","c","5","a","6","e","d","a">>
      [] name = <<"M","u","s","e">> -> <<"e","3","f","f","4","9","f","1","3","a","4","e","7","b","e","2","9","c","8","0","5","1","3","8","5","a","d","c","4","9","9","c">>
      [] name = <<"F","r","e","d","d","i","e">> -> <<"6","8","9","a","9","0","9","4","f","7","a","8","5","b","8","7","9","6","6","6","3","b","3","8","4","f","d","1","d","a","9","7">>
      [] name = <<"J","a","z","z">> -> <<"9","a","2","8","4","e","f","d","a","4","d","4","6","6","3","6","b","d","9","d","5","2","9","8","d","f","e","a","1","3","3","5">>

\* Option::unwrap_or.
unwrap_or(option, default) == IF option = None THEN default ELSE option[1]

Duration_from_secs(secs) == [secs |-> secs, nanos |-> 0]

DefaultSong ==
    [title |-> <<>>, artist |-> <<>>, album |-> <<>>, genre |-> <<>>, year |-> None,
     track |-> None, bitrate |-> None, sample_rate |-> None, bit_depth |-> None,
     channels |-> None, duration |-> Duration_from_secs(0), uri |-> None,
     cover |-> None, album_artist |-> <<>>]

DefaultArtist ==
    [id |-> <<>>, name |-> <<>>, picture |-> None, albums |-> <<>>, songs |-> <<>>]

DefaultAlbum ==
    [id |-> <<>>, title |-> <<>>, artist |-> <<>>, artist_id |-> None, year |-> None,
     cover |-> None, tracks |-> <<>>]

\* impl From<&Tag> for Song.
Song_from_Tag(t) ==
    [DefaultSong EXCEPT
        !.title = unwrap_or(t.title, <<"N","o","n","e">>),
        !.artist = unwrap_or(t.artist, <<"N","o","n","e">>),
        !.album = unwrap_or(t.album, <<"N","o","n","e">>),
        !.genre = unwrap_or(t.genre, <<"N","o","n","e">>),
        !.year = t.year,
        !.track = t.track,
        !.album_artist = unwrap_or(t.album_artist, unwrap_or(t.artist, <<"N","o","n","e">>))]

\* impl From<&Tag> for Artist.
Artist_from_Tag(t) ==
    [DefaultArtist EXCEPT
        !.id = md5_hex(unwrap_or(t.album_artist, unwrap_or(t.artist, <<"N","o","n","e">>))),
        !.name = unwrap_or(t.album_artist, unwrap_or(t.artist, <<"N","o","n","e">>))]

\* A slip that hashes the track artist for the album's artist_id.
Album_from_Tag_track_artist(t) ==
    [DefaultAlbum EXCEPT
        !.id = md5_hex(unwrap_or(t.album, <<"N","o","n","e">>)),
        !.artist_id = Some(md5_hex(unwrap_or(t.artist, <<"N","o","n","e">>))),
        !.title = unwrap_or(t.album, <<"N","o","n","e">>),
        !.artist = unwrap_or(t.album_artist, unwrap_or(t.artist, <<"N","o","n","e">>)),
        !.year = t.year]

\* impl From<&Tag> for Album.
Album_from_Tag(t) ==
    [DefaultAlbum EXCEPT
        !.id = md5_hex(unwrap_or(t.album, <<"N","o","n","e">>)),
        !.artist_id =
            Some(md5_hex(unwrap_or(t.album_artist, unwrap_or(t.artist, <<"N","o","n","e">>)))),
        !.title = unwrap_or(t.album, <<"N","o","n","e">>),
        !.artist = unwrap_or(t.album_artist, unwrap_or(t.artist, <<"N","o","n","e">>)),
        !.year = t.year]

\* Tag records: every field present or absent.
Tags ==
    [title : {None, Some(<<"J","a","z","z">>)},
     artist : {None, Some(<<"Q","u","e","e","n">>), Some(<<"F","r","e","d","d","i","e">>)},
     album : {None, Some(<<"J","a","z","z">>)},
     genre : {None, Some(<<"R","o","c","k">>)},
     year : {None, Some(1978)},
     track : {None},
     album_artist : {None, Some(<<"Q","u","e","e","n">>), Some(<<"M","u","s","e">>)}]

InitTag ==
    /\ tag \in {Some(t) : t \in Tags}
    /\ derived = [song |-> None, artist |-> None, album |-> None]
    /\ settings = None
    /\ local_ip = None
    /\ batch = <<>>
    /\ devices = <<>>
    /\ panicked = FALSE
    /\ entity = None
    /\ applied = <<>>
    /\ song = None
    /\ device = None
    /\ returned = None
    /\ document = None
    /\ encoded = None
    /\ decoded = None
    /\ this = None
    /\ current_device = None
    /\ answer = None

SongFromTag ==
    /\ tag # None
    /\ derived.song = None
    /\ derived' = [derived EXCEPT !.song = Some(Song_from_Tag(tag[1]))]
    /\ UNCHANGED <<tag, discoveryVars, rehomeVars, updateVars, documentVars, connectedVars>>

ArtistFromTag ==
    /\ tag # None
    /\ derived.artist = None
    /\ derived' = [derived EXCEPT !.artist = Some(Artist_from_Tag(tag[1]))]
    /\ UNCHANGED <<tag, discoveryVars, rehomeVars, updateVars, documentVars, connectedVars>>

AlbumFromTag ==
    /\ tag # None
    /\ derived.album = None
    /\ derived' = [derived EXCEPT !.album = Some(Album_from_Tag(tag[1]))]
    /\ UNCHANGED <<tag, discoveryVars, rehomeVars, updateVars, documentVars, connectedVars>>

NextTag == SongFromTag \/ ArtistFromTag \/ AlbumFromTag

\* The album-artist name of a tag record: the album-artist field, else the
\* artist field, else "None".
ResolvedAlbumArtist(t) ==
    IF t.album_artist # None THEN t.album_artist[1]
    ELSE IF t.artist # None THEN t.artist[1]
    ELSE <<"N","o","n","e">>

\* C8: the Album and the Artist derived from one tag record agree:
\* Album.artist_id is Artist.id, the hex digest of the resolved album-artist
\* name, and Album.artist is Artist.name, that name.
C8_AlbumArtistAgree ==
    (tag # None /\ derived.artist # None /\ derived.album # None) =>
        LET artist == derived.artist[1]
            album == derived.album[1]
        IN
        /\ album.artist_id = Some(artist.id)
        /\ artist.id = md5_hex(ResolvedAlbumArtist(tag[1]))
        /\ album.artist = artist.name
        /\ artist.name = ResolvedAlbumArtist(tag[1])

\* C8's case: both derived from a record whose album-artist and artist fields
\* differ, so the fallback decides the id.
C8_Witness ==
    /\ tag # None
    /\ tag[1].album_artist = Some(<<"M","u","s","e">>)
    /\ tag[1].artist = Some(<<"Q","u","e","e","n">>)
    /\ derived.artist # None
    /\ derived.album # None
    /\ derived.album[1].artist_id = Some(<<"e","3","f","f","4","9","f","1","3","a","4","e","7","b","e","2","9","c","8","0","5","1","3","8","5","a","d","c","4","9","9","c">>)

\* ------------------------------------------------------------------ updates
\* Song::with_properties(&mut self, ..): the receiver after the call, and the
\* clone returned.
Song_with_properties(self, properties) ==
    LET updated == [self EXCEPT
                        !.bitrate = properties.audio_bitrate,
                        !.sample_rate = properties.sample_rate,
                        !.bit_depth = properties.bit_depth,
                        !.channels = properties.channels,
                        !.duration = properties.duration]
    IN [self |-> updated, returned |-> updated]

\* Device::with_base_url(&mut self, ..): the receiver after the call, and the
\* clone returned.
Device_with_base_url(self, base_url) ==
    LET updated == [self EXCEPT !.base_url = base_url]
    IN [self |-> updated, returned |-> updated]

FileProperties ==
    [audio_bitrate : {None, Some(320)},
     sample_rate : {None, Some(44100)},
     bit_depth : {None, Some(16)},
     channels : {Some(2)},
     duration : {Duration_from_secs(0), [secs |-> 215, nanos |-> 500000000]}]

\* The Songs and Devices the calls are made on: as their constructors leave
\* them.
ReceiverSongs ==
    {Song_from_Tag(t) : t \in {x \in Tags : x.title # None /\ x.genre = None
                                            /\ x.year = None /\ x.album_artist = None}}

ReceiverDevices ==
    {Device_from_ServiceInfo(
        ServiceInfo(f, HostName, {Addr1}, AllProperties), Some(Addr1),
        Some([device_id |-> <<"a","b","c","d">>]), Some(LocalIp)).val :
            f \in {ChromecastName, HttpAbcdName}}
    \cup {Device_from_upnp(d).val :
            d \in {x \in Descriptors :
                    /\ x.location = <<"h","t","t","p",":","/","/","1","9","2",".","1","6","8",".","1",".","9",":","8","2","0","0","/","d","e","s","c",".","x","m","l">>
                    /\ x.device_type = MediaRendererType}}

InitUpdate ==
    /\ song \in {Some(s) : s \in ReceiverSongs}
    /\ device \in {Some(d) : d \in ReceiverDevices}
    /\ returned = None
    /\ settings = None
    /\ local_ip = None
    /\ batch = <<>>
    /\ devices = <<>>
    /\ panicked = FALSE
    /\ entity = None
    /\ applied = <<>>
    /\ tag = None
    /\ derived = None
    /\ document = None
    /\ encoded = None
    /\ decoded = None
    /\ this = None
    /\ current_device = None
    /\ answer = None

WithProperties(properties) ==
    /\ song # None
    /\ LET call == Song_with_properties(song[1], properties)
       IN /\ song' = Some(call.self)
          /\ returned' = Some(call.returned)
    /\ UNCHANGED <<device, discoveryVars, rehomeVars, tagVars, documentVars, connectedVars>>

WithBaseUrl(base_url) ==
    /\ device # None
    /\ LET call == Device_with_base_url(device[1], base_url)
       IN /\ device' = Some(call.self)
          /\ returned' = Some(call.returned)
    /\ UNCHANGED <<song, discoveryVars, rehomeVars, tagVars, documentVars, connectedVars>>

NextUpdate ==
    \/ \E properties \in FileProperties : WithProperties(properties)
    \/ \E base_url \in {None} \cup {Some(b) : b \in BaseUrls} : WithBaseUrl(base_url)

\* C7: a with_* call leaves the value it is called on as it was: no step
\* changes the receiver Song or the receiver Device.
C7_ReceiverUnchanged == [][song' = song /\ device' = device]_vars

\* ---------------------------------------------------------------- documents
\* The schema each decoder builds, in the order of its add_*_field calls.
\* STRING | STORED, TEXT | STORED and STORED are kept in the index; a field
\* declared TEXT alone is indexed and not kept.
AlbumSchema ==
    <<[name |-> "id", type |-> "text", stored |-> TRUE],
      [name |-> "title", type |-> "text", stored |-> TRUE],
      [name |-> "artist", type |-> "text", stored |-> TRUE],
      [name |-> "year", type |-> "i64", stored |-> TRUE],
      [name |-> "cover", type |-> "text", stored |-> TRUE]>>

ArtistSchema ==
    <<[name |-> "id", type |-> "text", stored |-> TRUE],
      [name |-> "name", type |-> "text", stored |-> TRUE]>>

SimplifiedSongSchema ==
    <<[name |-> "id", type |-> "text", stored |-> TRUE],
      [name |-> "title", type |-> "text", stored |-> TRUE],
      [name |-> "artist", type |-> "text", stored |-> TRUE],
      [name |-> "album", type |-> "text", stored |-> TRUE],
      [name |-> "genre", type |-> "text", stored |-> FALSE],
      [name |-> "cover", type |-> "text", stored |-> TRUE],
      [name |-> "duration", type |-> "i64", stored |-> TRUE],
      [name |-> "artist_id", type |-> "text", stored |-> TRUE],
      [name |-> "album_id", type |-> "text", stored |-> TRUE]>>

\* The Field an add_*_field call returns: the field's ordinal in its schema.
field(schema, name) == (CHOOSE i \in 1..Len(schema) : schema[i].name = name) - 1

\* tantivy values.
Text(s) == [type |-> "text", text |-> s]
I64(n) == [type |-> "i64", i64 |-> n]
as_text(value) == IF value.type = "text" THEN Some(value.text) ELSE None
as_i64(value) == IF value.type = "i64" THEN Some(value.i64) ELSE None

\* Document::get_first: the first value the document holds for the Field.
get_first(doc, f) ==
    LET at == {i \in 1..Len(doc) : doc[i].field = f}
    IN IF at = {} THEN None
       ELSE Some(doc[CHOOSE i \in at : \A j \in at : i <= j].value)

\* doc.get_first(f).unwrap().as_text().unwrap(): None stands for the panic of
\* either unwrap.
required_text(doc, f) ==
    IF get_first(doc, f) = None THEN None ELSE as_text(get_first(doc, f)[1])

\* match doc.get_first(f) { Some(v) => v.as_text().unwrap(), None => "" }:
\* None stands for the panic of the unwrap.
optional_text(doc, f) ==
    IF get_first(doc, f) = None THEN Some(<<>>) ELSE as_text(get_first(doc, f)[1])

\* The two matches that read a cover: absent, not a text or "" is no cover.
document_cover(doc, f) ==
    LET cover == IF get_first(doc, f) = None THEN None
                 ELSE as_text(get_first(doc, f)[1])
    IN IF cover = None \/ cover = Some(<<>>) THEN None ELSE cover

\* impl From<Document> for Album.  The years held are those of a u32, which
\* `as u32` leaves as they are.
Album_from_Document(doc) ==
    LET id == required_text(doc, field(AlbumSchema, "id"))
        title == required_text(doc, field(AlbumSchema, "title"))
        artist == required_text(doc, field(AlbumSchema, "artist"))
        year == IF get_first(doc, field(AlbumSchema, "year")) = None THEN None
                ELSE as_i64(get_first(doc, field(AlbumSchema, "year"))[1])
    IN
    IF id = None THEN Panic("unwrap: id")
    ELSE IF title = None THEN Panic("unwrap: title")
    ELSE IF artist = None THEN Panic("unwrap: artist")
    ELSE IF year = None THEN Panic("unwrap: year")
    ELSE Ok([DefaultAlbum EXCEPT
                !.id = id[1],
                !.title = title[1],
                !.artist = artist[1],
                !.year = Some(year[1]),
                !.cover = document_cover(doc, field(AlbumSchema, "cover"))])

\* impl From<Document> for Artist.
Artist_from_Document(doc) ==
    LET id == required_text(doc, field(ArtistSchema, "id"))
        name == required_text(doc, field(ArtistSchema, "name"))
    IN
    IF id = None THEN Panic("unwrap: id")
    ELSE IF name = None THEN Panic("unwrap: name")
    ELSE Ok([DefaultArtist EXCEPT !.id = id[1], !.name = name[1]])

DefaultSimplifiedSong ==
    [id |-> <<>>, title |-> <<>>, artist |-> <<>>, album |-> <<>>, genre |-> <<>>,
     duration |-> Duration_from_secs(0), cover |-> None, artist_id |-> <<>>,
     album_id |-> <<>>]

\* impl From<Document> for SimplifiedSong.  The durations held are not
\* negative, so `as u64` leaves them as they are.
SimplifiedSong_from_Document(doc) ==
    LET schema == SimplifiedSongSchema
        id == required_text(doc, field(schema, "id"))
        title == optional_text(doc, field(schema, "title"))
        artist == optional_text(doc, field(schema, "artist"))
        album == optional_text(doc, field(schema, "album"))
        genre == optional_text(doc, field(schema, "genre"))
        duration ==
            IF get_first(doc, field(schema, "duration")) = None
                THEN Duration_from_secs(0)
            ELSE Duration_from_secs(
                    unwrap_or(as_i64(get_first(doc, field(schema, "duration"))[1]), 0))
        artist_id == required_text(doc, field(schema, "artist_id"))
        album_id == required_text(doc, field(schema, "album_id"))
    IN
    IF id = None THEN Panic("unwrap: id")
    ELSE IF title = None THEN Panic("unwrap: title")
    ELSE IF artist = None THEN Panic("unwrap: artist")
    ELSE IF album = None THEN Panic("unwrap: album")
    ELSE IF genre = None THEN Panic("unwrap: genre")
    ELSE IF artist_id = None THEN Panic("unwrap: artist_id")
    ELSE IF album_id = None THEN Panic("unwrap: album_id")
    ELSE Ok([DefaultSimplifiedSong EXCEPT
                !.id = id[1],
                !.title = title[1],
                !.artist = artist[1],
                !.album = album[1],
                !.genre = genre[1],
                !.duration = duration,
                !.cover = document_cover(doc, field(schema, "cover")),
                !.artist_id = artist_id[1],
                !.album_id = album_id[1]])

\* A document of a schema: the fields that have a value, in schema order.
DocumentOf(schema, values) ==
    LET present == SelectSeq([i \in 1..Len(schema) |->
                                [field |-> i - 1, value |-> values[schema[i].name]]],
                             LAMBDA fv : fv.value # None)
    IN [i \in 1..Len(present) |->
            [field |-> present[i].field, value |-> present[i].value[1]]]

\* What the index gives back of a document: its stored fields.
stored(doc, schema) == SelectSeq(doc, LAMBDA fv : schema[fv.field + 1].stored)

\* Encoding, the inverse of decoding: every field of the decoder's schema is
\* written from the entity, an absent optional value as no field.
Document_from_Album(album) ==
    DocumentOf(AlbumSchema,
        [id |-> Some(Text(album.id)),
         title |-> Some(Text(album.title)),
         artist |-> Some(Text(album.artist)),
         year |-> IF album.year = None THEN None ELSE Some(I64(album.year[1])),
         cover |-> IF album.cover = None THEN None ELSE Some(Text(album.cover[1]))])

Document_from_Artist(artist) ==
    DocumentOf(ArtistSchema,
        [id |-> Some(Text(artist.id)), name |-> Some(Text(artist.name))])

Document_from_SimplifiedSong(s) ==
    DocumentOf(SimplifiedSongSchema,
        [id |-> Some(Text(s.id)),
         title |-> Some(Text(s.title)),
         artist |-> Some(Text(s.artist)),
         album |-> Some(Text(s.album)),
         genre |-> Some(Text(s.genre)),
         cover |-> IF s.cover = None THEN None ELSE Some(Text(s.cover[1])),
         duration |-> Some(I64(s.duration.secs)),
         artist_id |-> Some(Text(s.artist_id)),
         album_id |-> Some(Text(s.album_id))])

\* --------------------------------------------------------- documents: inputs
\* SimplifiedSong documents with every subset of the fields, a cover of "",
\* and a duration that is not an i64.
SongDocuments ==
    {DocumentOf(SimplifiedSongSchema, values) :
        values \in [id : {None, Some(Text(<<"s","1">>))},
                    title : {None, Some(Text(<<"J","a","z","z">>))},
                    artist : {None, Some(Text(<<"Q","u","e","e","n">>))},
                    album : {None, Some(Text(<<"J","a","z","z">>))},
                    genre : {None, Some(Text(<<"R","o","c","k">>))},
                    cover : {None, Some(Text(<<>>)), Some(Text(<<"c",".","j","p","g">>))},
                    duration : {None, Some(I64(215)), Some(Text(<<"2","1","5">>))},
                    artist_id : {None, Some(Text(<<"r","1">>))},
                    album_id : {None, Some(Text(<<"a","1">>))}]}

IndexedAlbums ==
    {[DefaultAlbum EXCEPT !.id = <<"a","1">>, !.title = <<"J","a","z","z">>, !.artist = <<"Q","u","e","e","n">>,
                          !.year = year, !.cover = cover] :
        year \in {None, Some(1978)}, cover \in {None, Some(<<>>), Some(<<"c",".","j","p","g">>)}}

IndexedArtists ==
    {[DefaultArtist EXCEPT !.id = <<"r","1">>, !.name = name] : name \in {<<"Q","u","e","e","n">>, <<>>}}

IndexedSongs ==
    {[DefaultSimplifiedSong EXCEPT
        !.id = <<"s","1">>, !.title = <<"J","a","z","z">>, !.artist = <<"Q","u","e","e","n">>, !.album = <<"J","a","z","z">>,
        !.genre = genre, !.duration = Duration_from_secs(secs), !.cover = cover,
        !.artist_id = <<"r","1">>, !.album_id = <<"a","1">>] :
        genre \in {<<>>, <<"R","o","c","k">>}, secs \in {0, 215},
        cover \in {None, Some(<<>>), Some(<<"c",".","j","p","g">>)}}

\* -------------------------------------------------------- documents: actions
\* A run starts from a document of the song index, or from an entity that is
\* yet to be indexed.
InitDocument ==
    /\ \/ /\ document \in {Some([kind |-> "SimplifiedSong", fields |-> d]) :
                            d \in SongDocuments}
          /\ encoded = None
       \/ /\ document = None
          /\ encoded \in {Some([kind |-> "Album", value |-> a]) : a \in IndexedAlbums}
                \cup {Some([kind |-> "Artist", value |-> r]) : r \in IndexedArtists}
                \cup {Some([kind |-> "SimplifiedSong", value |-> s]) :
                        s \in IndexedSongs}
    /\ decoded = None
    /\ settings = None
    /\ local_ip = None
    /\ batch = <<>>
    /\ devices = <<>>
    /\ panicked = FALSE
    /\ entity = None
    /\ applied = <<>>
    /\ song = None
    /\ device = None
    /\ returned = None
    /\ tag = None
    /\ derived = None
    /\ this = None
    /\ current_device = None
    /\ answer = None

\* The entity is encoded, added to its index and read back.
Index ==
    /\ encoded # None
    /\ document = None
    /\ document' =
        Some([kind |-> encoded[1].kind,
              fields |->
                CASE encoded[1].kind = "Album" ->
                        stored(Document_from_Album(encoded[1].value), AlbumSchema)
                  [] encoded[1].kind = "Artist" ->
                        stored(Document_from_Artist(encoded[1].value), ArtistSchema)
                  [] encoded[1].kind = "SimplifiedSong" ->
                        stored(Document_from_SimplifiedSong(encoded[1].value),
                               SimplifiedSongSchema)])
    /\ UNCHANGED <<encoded, decoded, discoveryVars, rehomeVars, updateVars, tagVars, connectedVars>>

Decode(kind, result) ==
    /\ document # None
    /\ document[1].kind = kind
    /\ decoded = None
    /\ decoded' = Some(result)
    /\ UNCHANGED <<document, encoded, discoveryVars, rehomeVars, updateVars, tagVars, connectedVars>>

DecodeAlbum ==
    /\ document # None
    /\ Decode("Album", Album_from_Document(document[1].fields))

DecodeArtist ==
    /\ document # None
    /\ Decode("Artist", Artist_from_Document(document[1].fields))

DecodeSimplifiedSong ==
    /\ document # None
    /\ Decode("SimplifiedSong", SimplifiedSong_from_Document(document[1].fields))

NextDocument == Index \/ DecodeAlbum \/ DecodeArtist \/ DecodeSimplifiedSong

\* --------------------------------------------------------- documents: claims
\* Whether a document holds a value for the named field of its schema.
Holds(doc, schema, name) == \E i \in 1..Len(doc) : doc[i].field = field(schema, name)

\* C9: decoding a SimplifiedSong document that has an id succeeds, whichever
\* of title, artist, genre, cover, duration, artist_id and album_id it lacks:
\* an absent textual field decodes to "", an absent duration to zero, an
\* absent or empty cover to no cover.
C9_FailsOnlyWithoutId ==
    (/\ document # None
     /\ document[1].kind = "SimplifiedSong"
     /\ decoded # None
     /\ Holds(document[1].fields, SimplifiedSongSchema, "id")) =>
        LET doc == document[1].fields
            absent(name) == ~Holds(doc, SimplifiedSongSchema, name)
            s == decoded[1].val
        IN
        /\ decoded[1].res = "Ok"
        /\ absent("title") => s.title = <<>>
        /\ absent("artist") => s.artist = <<>>
        /\ absent("genre") => s.genre = <<>>
        /\ absent("artist_id") => s.artist_id = <<>>
        /\ absent("album_id") => s.album_id = <<>>
        /\ absent("duration") => s.duration = Duration_from_secs(0)
        /\ absent("cover") => s.cover = None
        /\ get_first(doc, field(SimplifiedSongSchema, "cover")) = Some(Text(<<>>))
                => s.cover = None

\* The cover a round trip gives back: "" comes back as no cover.
CoverRoundTrip(cover) == IF cover = Some(<<>>) THEN None ELSE cover

\* C10: an Album, Artist or SimplifiedSong that is encoded under its decoder's
\* schema, indexed and decoded comes back with every field of the schema as it
\* was, but for a cover of "", which comes back as no cover.
C10_RoundTrip ==
    (encoded # None /\ decoded # None) =>
        /\ decoded[1].res = "Ok"
        /\ LET e == encoded[1].value
               d == decoded[1].val
           IN
           CASE encoded[1].kind = "Album" ->
                    /\ d.id = e.id
                    /\ d.title = e.title
                    /\ d.artist = e.artist
                    /\ d.year = e.year
                    /\ d.cover = CoverRoundTrip(e.cover)
             [] encoded[1].kind = "Artist" ->
                    /\ d.id = e.id
                    /\ d.name = e.name
             [] encoded[1].kind = "SimplifiedSong" ->
                    /\ d.id = e.id
                    /\ d.title = e.title
                    /\ d.artist = e.artist
                    /\ d.album = e.album
                    /\ d.genre = e.genre
                    /\ d.duration = e.duration
                    /\ d.cover = CoverRoundTrip(e.cover)
                    /\ d.artist_id = e.artist_id
                    /\ d.album_id = e.album_id

\* =============================================================== connection
\* A variant of is_connected that compares the whole Device with the current
\* one instead of the ids.
Device_is_connected_same_device(self, cur) ==
    [self |-> self,
     current |-> cur,
     returned |-> [self EXCEPT !.is_connected = (cur # None /\ self = cur[1])]]

\* impl Connected for Device.  self and current are shared borrows: the call
\* reads them, builds the result from self.clone() and hands both back as
\* they were.
Device_is_connected(self, cur) ==
    [self |-> self,
     current |-> cur,
     returned |->
        IF cur # None
        THEN [self EXCEPT !.is_connected = (self.id = cur[1].id)]
        ELSE [self EXCEPT !.is_connected = FALSE]]

\* The Devices a client lists: as discovery leaves them.  Two of them carry
\* the id abcd and differ in their name.
ListedDevices ==
    {Device_from_ServiceInfo(
        ServiceInfo(f, HostName, {Addr1}, p), Some(Addr1),
        Some([device_id |-> <<"0","0","0","0">>]), Some(LocalIp)).val :
            f \in {HttpAbcdName, HttpEf01Name}, p \in {AllProperties, NoProperties}}
    \cup {Device_from_ServiceInfo(
            ServiceInfo(f, HostName, {Addr1}, AllProperties), Some(Addr1),
            Some([device_id |-> <<"0","0","0","0">>]), Some(LocalIp)).val :
                f \in {ChromecastName, XbmcName}}
    \cup {Device_from_upnp(d).val :
            d \in {x \in Descriptors :
                    /\ x.location = <<"h","t","t","p",":","/","/","1","9","2",".","1","6","8",".","1",".","9",":","8","2","0","0","/","d","e","s","c",".","x","m","l">>
                    /\ x.device_type = MediaRendererType}}

InitConnected ==
    /\ this \in {Some(d) : d \in ListedDevices}
    /\ current_device \in {None} \cup {Some(d) : d \in ListedDevices}
    /\ answer = None
    /\ settings = None
    /\ local_ip = None
    /\ batch = <<>>
    /\ devices = <<>>
    /\ panicked = FALSE
    /\ entity = None
    /\ applied = <<>>
    /\ song = None
    /\ device = None
    /\ returned = None
    /\ tag = None
    /\ derived = None
    /\ document = None
    /\ encoded = None
    /\ decoded = None

\* this.is_connected(current_device)
IsConnected ==
    /\ this # None
    /\ LET call == Device_is_connected(this[1], current_device)
       IN /\ this' = Some(call.self)
          /\ current_device' = call.current
          /\ answer' = Some(call.returned)
    /\ UNCHANGED <<discoveryVars, rehomeVars, updateVars, tagVars, documentVars>>

\* The caller keeps the Device it got back and asks again about that one.
KeepResult ==
    /\ answer # None
    /\ this' = answer
    /\ answer' = None
    /\ UNCHANGED <<current_device, discoveryVars, rehomeVars, updateVars, tagVars, documentVars>>

\* The player connects to another Device, or disconnects; the answer given
\* for the previous connection is dropped.
Reconnect(cur) ==
    /\ cur # current_device
    /\ current_device' = cur
    /\ answer' = None
    /\ UNCHANGED <<this, discoveryVars, rehomeVars, updateVars, tagVars, documentVars>>

NextConnected ==
    \/ IsConnected
    \/ KeepResult
    \/ \E cur \in {None} \cup {Some(d) : d \in ListedDevices} : Reconnect(cur)

\* C11: every step that returns from is_connected returns a Device whose
\* is_connected flag is true exactly when a current device is supplied and
\* its id equals the receiver's id (false when none is supplied), whose other
\* fields are the receiver's, and leaves the receiver and the current device
\* as they were.
C11_IsConnected ==
    [][answer' # None =>
        /\ this' = this
        /\ current_device' = current_device
        /\ answer'[1].is_connected = (current_device # None /\ this[1].id = current_device[1].id)
        /\ [answer'[1] EXCEPT !.is_connected = this[1].is_connected] = this[1]]_vars

\* is_connected has answered true for a receiver that was not flagged and
\* that shares only its id with the current device.
C11_Witness ==
    /\ answer # None
    /\ current_device # None
    /\ this[1].id = current_device[1].id
    /\ this[1] # current_device[1]
    /\ ~this[1].is_connected
    /\ answer[1].is_connected
    /\ answer[1].name = this[1].name

\* ------------------------------------------- discovery: claims about aborts
\* The record handed to the call that panicked.
LastInput == batch[Len(batch)]

\* A service record that is sparse in nothing but its properties: it has a
\* host name and an address, and the settings and the local address can be
\* read.
CompleteButProperties(input) ==
    /\ input.kind = "service"
    /\ input.srv.hostname # <<>>
    /\ input.next_addr # None
    /\ settings # None
    /\ local_ip # None

\* The properties lack an entry the record's branch reads.
LacksProperty(srv) ==
    \/ /\ DocumentedApp(srv.fullname) = <<"m","u","s","i","c","-","p","l","a","y","e","r">>
       /\ get(srv.properties, "device_name") = None
    \/ /\ DocumentedApp(srv.fullname) = <<"c","h","r","o","m","e","c","a","s","t">>
       /\ \/ get(srv.properties, "id") = None
          \/ get(srv.properties, "fn") = None

\* C12: normalization never aborts on a record that only lacks a property
\* (device_name for music-player, id or fn for Chromecast), and aborts on a
\* UPnP/DLNA descriptor only when its location does not parse as a URL.
C12_AbortsOnlyOnBrokenInvariant ==
    panicked =>
        /\ ~(CompleteButProperties(LastInput) /\ LacksProperty(LastInput.srv))
        /\ LastInput.kind = "descriptor" =>
                Url_parse(LastInput.upnp.location).res = "Panic"

\* ----------------------------------------------------------- specifications
SpecDiscovery == InitDiscovery /\ [][NextDiscovery]_vars
SpecRehome == InitRehome /\ [][NextRehome]_vars
SpecUpdate == InitUpdate /\ [][NextUpdate]_vars
SpecTag == InitTag /\ [][NextTag]_vars
SpecDocument == InitDocument /\ [][NextDocument]_vars
SpecConnected == InitConnected /\ [][NextConnected]_vars
====
